---- MODULE Spec2Model ----
(***************************************************************************)
(* Model of src/index.js: the three-pass scan pipeline (main and its       *)
(* stages), the two include-list builders (buildInclude24s and             *)
(* buildIncludeIps) with their read and write streams, and pushToGit.      *)
(*                                                                         *)
(* One action is one run-to-completion turn of the Node event loop: an     *)
(* event handler together with the promise continuations (microtasks) it   *)
(* triggers, up to the next suspension.                                    *)
(***************************************************************************)
EXTENDS Integers, Sequences, FiniteSets, TLC

VARIABLES
    config,       \* config.json: the four flags main reads
    pc,           \* where main is suspended (the awaited call), or how it ended
    ips,          \* content of the file 'ips' (bytes)
    includeFile,  \* content of the file 'includeFile.txt' (lines)
    out,          \* out[k]: the write stream `out` of the builder of Stage k
    stream,       \* the read stream `stream` of the running builder
    seen,         \* the builder's `seen` set
    remainder,    \* the builder's `remainder`
    promise,      \* promise[k]: the promise returned by the builder of Stage k
    records,      \* history: the records the data handler has iterated over
    straddled,    \* history: a data handler has prepended a remainder
    crossDup,     \* history: a key added in an earlier chunk was met again
    trace,        \* history: the pipeline actions started, in order
    appended,     \* number of records the validators have appended so far
    err,          \* the failure that occurred, "none" when none
    logged        \* the call whose error pushToGit's catch gave to console.error

vars == <<config, pc, ips, includeFile, out, stream, seen, remainder, promise,
          records, straddled, crossDup, trace, appended, err, logged>>

\* the closure of the running builder, with its history
builder == <<stream, seen, remainder, records, straddled, crossDup>>

(***************************************************************************)
(* Bounds of the model.                                                    *)
(***************************************************************************)
\* complete records in the log a builder is run on alone (SpecBuild)
MaxLogRecords == 3
\* complete records in 'ips' before the pipeline starts (Spec)
MaxInitRecords == 1
\* records the validators of one run append, all stages together (Spec)
MaxAppend == 2
\* length of a chunk that is not the whole rest of the file
MaxChunk == 7

(***************************************************************************)
(* Inputs: 6-byte records {address: 4 bytes, port: 2 bytes}.  Two hosts of *)
(* one /24, the same host on two ports, and a host of another /24.         *)
(***************************************************************************)
RecordPool ==
    { <<10, 0, 0, 1, 99, 221>>, <<10, 0, 0, 2, 99, 221>>,
      <<10, 0, 0, 1, 99, 222>>, <<10, 1, 0, 1, 99, 221>> }

\* a truncated trailing record: none, or the first five bytes of one
PartialTails == { <<>>, <<10, 0, 0, 2, 99>> }

RECURSIVE Flatten(_)
Flatten(rs) == IF rs = <<>> THEN <<>> ELSE Head(rs) \o Flatten(Tail(rs))

SeqsUpTo(S, n) == UNION { [1..m -> S] : m \in 0..n }

Logs(pool, n) == { Flatten(rs) \o t : rs \in SeqsUpTo(pool, n), t \in PartialTails }

\* the records in 'ips' before the pipeline starts, and the records the
\* validators of a run confirm, in the order they confirm them: a host of
\* another /24, another host of the same /24, the same host on another port
InitPool == { <<10, 0, 0, 1, 99, 221>> }
Candidates ==
    << <<10, 1, 0, 1, 99, 221>>, <<10, 0, 0, 2, 99, 221>>, <<10, 0, 0, 1, 99, 222>> >>

Flags == [scanPort : BOOLEAN, scan24s : BOOLEAN, scanAllPorts : BOOLEAN, gitPush : BOOLEAN]

(***************************************************************************)
(* Buffers.  JavaScript indexes from 0, TLA+ sequences from 1.             *)
(***************************************************************************)
\* `let remainder = null`: null is the empty set, a buffer b is {b}
Null == {}
Buf(b) == {b}
Get(o) == CHOOSE b \in o : TRUE

At(buf, i) == buf[i + 1]
subarray(buf, s, e) == SubSeq(buf, s + 1, e)
slice(buf, s) == SubSeq(buf, s + 1, Len(buf))

HexDigits == <<"0", "1", "2", "3", "4", "5", "6", "7", "8", "9", "a", "b", "c", "d", "e", "f">>

RECURSIVE toStringHex(_)
\* Buffer.toString('hex'): two lower-case hex digits per byte
toStringHex(buf) ==
    IF buf = <<>> THEN ""
    ELSE HexDigits[(Head(buf) \div 16) + 1] \o HexDigits[(Head(buf) % 16) + 1]
         \o toStringHex(Tail(buf))

(***************************************************************************)
(* buildInclude24s: the body of the 'data' handler.                        *)
(***************************************************************************)
\* mutant: the remainder is not prepended
Concat24_Forget(rem, chunk) == chunk

\* `if (remainder) chunk = Buffer.concat([remainder, chunk])`
Concat24(rem, chunk) == IF rem # Null THEN Get(rem) \o chunk ELSE chunk

\* mutant: the key of buildIncludeIps, four bytes wide
Key24_Wide(chunk, i) == toStringHex(subarray(chunk, i, i + 4))

Key24(chunk, i) == toStringHex(subarray(chunk, i, i + 3))

\* mutant: the line names the network address without its prefix length
Line24_NoMask(chunk, i) ==
    ToString(At(chunk, i)) \o "." \o ToString(At(chunk, i + 1)) \o "."
        \o ToString(At(chunk, i + 2)) \o ".0\n"

Line24(chunk, i) ==
    ToString(At(chunk, i)) \o "." \o ToString(At(chunk, i + 1)) \o "."
        \o ToString(At(chunk, i + 2)) \o ".0/24\n"

RECURSIVE Loop24(_, _, _)
\* the for loop; st = [seen, written (the out.write calls), recs (history)]
Loop24(chunk, i, st) ==
    IF i < (Len(chunk) \div 6) * 6
    THEN LET key == Key24(chunk, i)
             rec == Append(st.recs, subarray(chunk, i, i + 6))
         IN  IF key \in st.seen
             THEN Loop24(chunk, i + 6, [st EXCEPT !.recs = rec])
             ELSE Loop24(chunk, i + 6,
                         [seen |-> st.seen \cup {key},
                          written |-> Append(st.written, Line24(chunk, i)),
                          recs |-> rec])
    ELSE st

\* mutant: the bytes after the last complete record are dropped
Remainder24_Dropped(chunk) == Null

\* mutant: an empty buffer is kept instead of null
Remainder24_NeverNull(chunk) == Buf(slice(chunk, (Len(chunk) \div 6) * 6))

Remainder24(chunk) ==
    IF Len(chunk) % 6 = 0 THEN Null ELSE Buf(slice(chunk, (Len(chunk) \div 6) * 6))

(***************************************************************************)
(* buildIncludeIps: the body of the 'data' handler.                        *)
(***************************************************************************)
\* mutant: the remainder is appended to the chunk instead of prepended
ConcatIps_Swapped(rem, chunk) == IF rem # Null THEN chunk \o Get(rem) ELSE chunk

ConcatIps(rem, chunk) == IF rem # Null THEN Get(rem) \o chunk ELSE chunk

KeyIps(chunk, i) == toStringHex(subarray(chunk, i, i + 4))

\* mutant: the fourth number is taken one byte too far, from the port
LineIps_Port(chunk, i) ==
    ToString(At(chunk, i)) \o "." \o ToString(At(chunk, i + 1)) \o "."
        \o ToString(At(chunk, i + 2)) \o "." \o ToString(At(chunk, i + 4)) \o "\n"

LineIps(chunk, i) ==
    ToString(At(chunk, i)) \o "." \o ToString(At(chunk, i + 1)) \o "."
        \o ToString(At(chunk, i + 2)) \o "." \o ToString(At(chunk, i + 3)) \o "\n"

RECURSIVE LoopIps(_, _, _)
LoopIps(chunk, i, st) ==
    IF i < (Len(chunk) \div 6) * 6
    THEN LET key == KeyIps(chunk, i)
             rec == Append(st.recs, subarray(chunk, i, i + 6))
         IN  IF key \in st.seen
             THEN LoopIps(chunk, i + 6, [st EXCEPT !.recs = rec])
             ELSE LoopIps(chunk, i + 6,
                          [seen |-> st.seen \cup {key},
                           written |-> Append(st.written, LineIps(chunk, i)),
                           recs |-> rec])
    ELSE st

\* mutant: the bytes after the last complete record are dropped
RemainderIps_Dropped(chunk) == Null

RemainderIps(chunk) ==
    IF Len(chunk) % 6 = 0 THEN Null ELSE Buf(slice(chunk, (Len(chunk) \div 6) * 6))

\* the handler of the builder of Stage k (2: buildInclude24s, 3: buildIncludeIps)
Concat(k, rem, chunk) == IF k = 2 THEN Concat24(rem, chunk) ELSE ConcatIps(rem, chunk)
Loop(k, chunk, st) == IF k = 2 THEN Loop24(chunk, 0, st) ELSE LoopIps(chunk, 0, st)
NewRemainder(k, chunk) == IF k = 2 THEN Remainder24(chunk) ELSE RemainderIps(chunk)
Key(k, chunk, i) == IF k = 2 THEN Key24(chunk, i) ELSE KeyIps(chunk, i)

(***************************************************************************)
(* Streams.                                                                *)
(***************************************************************************)
\* a write stream: the lines given to out.write so far, how many of them
\* have reached the file, and whether out.end() was called
NoStream == [state |-> "none", lines |-> <<>>, flushed |-> 0, ending |-> FALSE]
NewWriteStream == [state |-> "opening", lines |-> <<>>, flushed |-> 0, ending |-> FALSE]

\* a read stream: its state and the number of bytes delivered so far
NoReadStream == [state |-> "none", pos |-> 0]
NewReadStream == [state |-> "flowing", pos |-> 0]

BuildPc(k) == IF k = 2 THEN "build24" ELSE "buildIps"
ScanPc(n) == CASE n = 1 -> "scan1" [] n = 2 -> "scan2" [] OTHER -> "scan3"
ValidatePc(n) == CASE n = 1 -> "validate1" [] n = 2 -> "validate2" [] OTHER -> "validate3"

\* the process has ended: process.exit() ("done"), the rejection of main's
\* promise, which nothing handles ("failed"), an uncaught exception ("crashed")
Exited == {"done", "failed", "crashed"}

\* a write stream when the process ends: what it had not written is lost
Ended(o) ==
    [NoStream EXCEPT !.state = IF o.state \in {"none", "finished", "errored"}
                               THEN o.state ELSE "lost"]

\* the process ends with write streams o: streams and closures end with it
ProcessEnd(o) ==
    /\ out' = [k \in 2..3 |-> Ended(o[k])]
    /\ stream' = NoReadStream
    /\ seen' = {}
    /\ remainder' = Null
    /\ records' = <<>>
    /\ straddled' = FALSE
    /\ crossDup' = FALSE

(***************************************************************************)
(* The collaborators masscan.js and minecraftCheck.js are required by      *)
(* index.js and are not part of it.  A scan runs and then completes or     *)
(* fails; a validator appends confirmed 6-byte records to the result log   *)
(* and then completes or fails.                                            *)
(***************************************************************************)
\* the fifth argument of minecraftCheck: absent in Stage 1, 'a' afterwards
ValidatorFlag(n) == IF n = 1 THEN "" ELSE "a"

\* mutant: without the flag 'a' the result log is opened for writing afresh
ValidatorWrite_Truncating(log, r, flag) == IF flag = "a" THEN log \o r ELSE r

\* the result log after the validator has confirmed record r
ValidatorWrite(log, r, flag) == log \o r

(***************************************************************************)
(* main: the stages in order, each behind its flag.                        *)
(*   1 scanDefaultPort, 2 scanNearPorts, 3 scanAllPorts, 4 pushToGit,      *)
(*   5 process.exit()                                                      *)
(***************************************************************************)
\* mutant: scanNearPorts is run under the flag of scanDefaultPort
StageEnabled_WrongFlag(n) ==
    CASE n = 1 -> config.scanPort
      [] n = 2 -> config.scanPort
      [] n = 3 -> config.scanAllPorts
      [] n = 4 -> config.gitPush
      [] OTHER -> TRUE

StageEnabled(n) ==
    CASE n = 1 -> config.scanPort
      [] n = 2 -> config.scan24s
      [] n = 3 -> config.scanAllPorts
      [] n = 4 -> config.gitPush
      [] OTHER -> TRUE

\* mutant: main runs scanAllPorts before scanNearPorts
NextStage_Swapped(from) ==
    LET O == <<1, 3, 2, 4, 5>>
        start == IF from = 1 THEN 1 ELSE (CHOOSE p \in 1..5 : O[p] = from - 1) + 1
    IN  O[CHOOSE p \in start..5 :
              StageEnabled(O[p]) /\ \A q \in start..(p - 1) : ~StageEnabled(O[q])]

\* the next statement of main that does something, from statement `from` on
NextStage(from) ==
    CHOOSE n \in from..5 : StageEnabled(n) /\ \A m \in from..(n - 1) : ~StageEnabled(m)

\* mutant: the error is caught and main is run again
Throw_Retry == "main"

\* an awaited promise was rejected inside main: nothing catches it
Throw == "failed"

\* scanDefaultPort up to its first await: masscan is invoked
scanDefaultPort ==
    /\ pc' = "scan1"
    /\ trace' = Append(trace, "scan1")
    /\ UNCHANGED <<out, builder, promise, err, logged>>

\* scanNearPorts up to its first await: the executor of buildInclude24s runs;
\* statSync throws when statOk is false, which rejects the promise
scanNearPorts(statOk) ==
    /\ trace' = Append(trace, "build24")
    /\ IF statOk
       THEN /\ out' = [out EXCEPT ![2] = NewWriteStream]
            /\ stream' = NewReadStream
            /\ seen' = {}
            /\ remainder' = Null
            /\ records' = <<>>
            /\ straddled' = FALSE
            /\ crossDup' = FALSE
            /\ promise' = [promise EXCEPT ![2] = "pending"]
            /\ pc' = "build24"
            /\ err' = err
       ELSE /\ promise' = [promise EXCEPT ![2] = "rejected"]
            /\ pc' = Throw
            /\ err' = "stat"
            /\ ProcessEnd([out EXCEPT ![2] = NewWriteStream])
    /\ UNCHANGED logged

\* scanAllPorts up to its first await: the executor of buildIncludeIps runs
scanAllPorts ==
    /\ trace' = Append(trace, "buildIps")
    /\ out' = [out EXCEPT ![3] = NewWriteStream]
    /\ stream' = NewReadStream
    /\ seen' = {}
    /\ remainder' = Null
    /\ records' = <<>>
    /\ straddled' = FALSE
    /\ crossDup' = FALSE
    /\ promise' = [promise EXCEPT ![3] = "pending"]
    /\ pc' = "buildIps"
    /\ UNCHANGED <<err, logged>>

\* mutant: the catch block throws the error on
CatchPush_Rethrow == "failed"

\* the catch block of pushToGit, after which pushToGit returns normally
CatchPush == "done"

\* pushToGit up to its first await; simpleGit() throws when gitOk is false
pushToGit(gitOk) ==
    /\ trace' = Append(trace, "publish")
    /\ IF gitOk
       THEN /\ pc' = "git_addConfigName"
            /\ UNCHANGED <<err, logged>>
            /\ UNCHANGED <<out, builder>>
       ELSE /\ pc' = CatchPush
            /\ err' = "git"
            /\ logged' = "simpleGit"
            /\ ProcessEnd(out)
    /\ UNCHANGED promise

\* process.exit()
Exit ==
    /\ pc' = "done"
    /\ ProcessEnd(out)
    /\ UNCHANGED <<trace, promise, err, logged>>

\* main runs on from statement n; syncOk is the outcome of the synchronous
\* call made on the way (statSync, simpleGit)
Enter(n, syncOk) ==
    CASE n = 1 -> scanDefaultPort
      [] n = 2 -> scanNearPorts(syncOk)
      [] n = 3 -> scanAllPorts
      [] n = 4 -> pushToGit(syncOk)
      [] OTHER -> Exit

\* main() is called
MainStart ==
    /\ pc = "main"
    /\ \E syncOk \in BOOLEAN : Enter(NextStage(1), syncOk)
    /\ UNCHANGED <<config, ips, includeFile, appended>>

\* the ports of the masscan command of Stage n (its -p argument), as a set
\* of intervals <<first, last>>
Ports(n) ==
    CASE n = 1 -> { <<25565, 25565>> }
      [] n = 2 -> { <<25500, 25564>>, <<25566, 25700>> }
      [] OTHER -> { <<1024, 25499>>, <<25701, 65535>> }

(***************************************************************************)
(* A stage: the scan, then the validator.                                  *)
(***************************************************************************)
\* masscan's promise resolves: minecraftCheck is invoked
ScanDone(n) ==
    /\ pc = ScanPc(n)
    /\ pc' = ValidatePc(n)
    /\ trace' = Append(trace, ValidatePc(n))
    /\ UNCHANGED <<config, ips, includeFile, out, builder, promise, appended, err, logged>>

\* masscan's promise is rejected
ScanFail(n) ==
    /\ pc = ScanPc(n)
    /\ pc' = Throw
    /\ err' = "scan"
    /\ ProcessEnd(out)
    /\ UNCHANGED <<config, ips, includeFile, promise, trace, appended, logged>>

\* the running validator confirms the next candidate
ValidatorAppend(n) ==
    /\ pc = ValidatePc(n)
    /\ appended < MaxAppend
    /\ appended < Len(Candidates)
    /\ appended' = appended + 1
    /\ ips' = ValidatorWrite(ips, Candidates[appended + 1], ValidatorFlag(n))
    /\ UNCHANGED <<config, pc, includeFile, out, builder, promise, trace, err, logged>>

\* minecraftCheck's promise resolves: the stage returns and main runs on
ValidateDone(n) ==
    /\ pc = ValidatePc(n)
    /\ \E syncOk \in BOOLEAN : Enter(NextStage(n + 1), syncOk)
    /\ UNCHANGED <<config, ips, includeFile, appended>>

\* minecraftCheck's promise is rejected
ValidateFail(n) ==
    /\ pc = ValidatePc(n)
    /\ pc' = Throw
    /\ err' = "validator"
    /\ ProcessEnd(out)
    /\ UNCHANGED <<config, ips, includeFile, promise, trace, appended, logged>>

(***************************************************************************)
(* The builders' read stream: 'data', 'end' and 'error'.                   *)
(***************************************************************************)
\* the lengths the next chunk can have when `rest` bytes are left to read:
\* 1 to MaxChunk bytes, or all of them
ChunkLengths(rest) == { n \in 1..rest : n <= MaxChunk \/ n = rest }

\* 'data': the next chunk of the file
Data(k) ==
    /\ pc = BuildPc(k)
    /\ stream.state = "flowing"
    /\ \E n \in ChunkLengths(Len(ips) - stream.pos) :
       \E chunk \in {Concat(k, remainder, SubSeq(ips, stream.pos + 1, stream.pos + n))} :
         \E st \in {Loop(k, chunk, [seen |-> seen, written |-> <<>>, recs |-> <<>>])} :
             /\ seen' = st.seen
             /\ out' = [out EXCEPT ![k].lines = @ \o st.written]
             /\ remainder' = NewRemainder(k, chunk)
             /\ stream' = [stream EXCEPT !.pos = @ + n]
             /\ records' = records \o st.recs
             /\ straddled' = (straddled \/ remainder # Null)
             /\ crossDup' = (crossDup \/ \E j \in 1..Len(st.recs) : Key(k, st.recs[j], 0) \in seen)
    /\ UNCHANGED <<config, pc, ips, includeFile, promise, trace, appended, err, logged>>

\* 'end': out.end(); resolve(); the awaiting stage runs on and invokes masscan
End(k) ==
    /\ pc = BuildPc(k)
    /\ stream.state = "flowing"
    /\ stream.pos = Len(ips)
    /\ stream' = [stream EXCEPT !.state = "ended"]
    /\ out' = [out EXCEPT ![k].ending = TRUE]
    /\ promise' = [promise EXCEPT ![k] = "resolved"]
    /\ pc' = ScanPc(k)
    /\ trace' = Append(trace, ScanPc(k))
    /\ UNCHANGED <<config, ips, includeFile, seen, remainder, records, straddled,
                   crossDup, appended, err, logged>>

\* 'error' on the read stream: reject
ReadError(k) ==
    /\ pc = BuildPc(k)
    /\ stream.state = "flowing"
    /\ promise' = [promise EXCEPT ![k] = "rejected"]
    /\ pc' = Throw
    /\ err' = "read"
    /\ ProcessEnd(out)
    /\ UNCHANGED <<config, ips, includeFile, trace, appended, logged>>

(***************************************************************************)
(* The builders' write stream, fs.createWriteStream('includeFile.txt'):    *)
(* it opens the file (flag 'w': created or truncated), writes the queued   *)
(* lines one after the other at its own file position, and finishes once   *)
(* out.end() was called and the queue is empty.  All of it happens in the  *)
(* background of the event loop, whatever main is awaiting, until the      *)
(* process ends.                                                           *)
(***************************************************************************)
\* bytes never written, between the end of the file and a write beyond it
Hole == "\\0"

WriteAt(file, p, line) ==
    IF p <= Len(file) THEN [file EXCEPT ![p] = line]
    ELSE file \o [i \in 1..(p - Len(file) - 1) |-> Hole] \o <<line>>

OutOpen(k) ==
    /\ pc \notin Exited
    /\ out[k].state = "opening"
    /\ out' = [out EXCEPT ![k].state = "open"]
    /\ includeFile' = <<>>
    /\ UNCHANGED <<config, pc, ips, builder, promise, trace, appended, err, logged>>

OutWrite(k) ==
    /\ pc \notin Exited
    /\ out[k].state = "open"
    /\ out[k].flushed < Len(out[k].lines)
    /\ includeFile' = WriteAt(includeFile, out[k].flushed + 1, out[k].lines[out[k].flushed + 1])
    /\ out' = [out EXCEPT ![k].flushed = @ + 1]
    /\ UNCHANGED <<config, pc, ips, builder, promise, trace, appended, err, logged>>

OutFinish(k) ==
    /\ pc \notin Exited
    /\ out[k].state = "open"
    /\ out[k].ending
    /\ out[k].flushed = Len(out[k].lines)
    /\ out' = [out EXCEPT ![k].state = "finished"]
    /\ UNCHANGED <<config, pc, ips, includeFile, builder, promise, trace, appended, err, logged>>

\* the open, a write or the close fails: `out` emits 'error', which has no
\* listener, so the event is thrown as an uncaught exception
OutError(k) ==
    /\ pc \notin Exited
    /\ \/ out[k].state = "opening"
       \/ out[k].state = "open" /\ (out[k].flushed < Len(out[k].lines) \/ out[k].ending)
    /\ pc' = "crashed"
    /\ err' = "write"
    /\ ProcessEnd([out EXCEPT ![k].state = "errored"])
    /\ UNCHANGED <<config, ips, includeFile, promise, trace, appended, logged>>

(***************************************************************************)
(* pushToGit: the awaited git calls inside the try block.                  *)
(***************************************************************************)
GitSteps ==
    <<"git_addConfigName", "git_addConfigEmail", "git_getRemotes", "git_removeRemote",
      "git_addRemote", "git_add", "git_commit", "git_push">>

\* mutant: after removeRemote the remotes are fetched and tested again
AfterGit_Loop(i, hasOrigin) ==
    CASE GitSteps[i] = "git_getRemotes" -> IF hasOrigin THEN "git_removeRemote" ELSE "git_addRemote"
      [] GitSteps[i] = "git_removeRemote" -> "git_getRemotes"
      [] GitSteps[i] = "git_push" -> "done"
      [] OTHER -> GitSteps[i + 1]

\* the call awaited after step i resolved; after push: console.log, return,
\* and main calls process.exit()
AfterGit(i, hasOrigin) ==
    CASE GitSteps[i] = "git_getRemotes" -> IF hasOrigin THEN "git_removeRemote" ELSE "git_addRemote"
      [] GitSteps[i] = "git_push" -> "done"
      [] OTHER -> GitSteps[i + 1]

GitStepDone(i) ==
    /\ pc = GitSteps[i]
    /\ \E hasOrigin \in BOOLEAN : pc' = AfterGit(i, hasOrigin)
    /\ IF pc' \in Exited THEN ProcessEnd(out) ELSE UNCHANGED <<out, builder>>
    /\ UNCHANGED <<config, ips, includeFile, promise, trace, appended, err, logged>>

\* a git call is rejected: catch, console.error, return; main calls process.exit()
GitStepFail(i) ==
    /\ pc = GitSteps[i]
    /\ pc' = CatchPush
    /\ err' = "git"
    /\ logged' = GitSteps[i]
    /\ ProcessEnd(out)
    /\ UNCHANGED <<config, ips, includeFile, promise, trace, appended>>

(***************************************************************************)
(* Specifications.                                                         *)
(***************************************************************************)
\* what an earlier run left in includeFile.txt
OldList == <<"172.16.0.0/24\n", "172.16.1.0/24\n">>

Fresh ==
    /\ pc = "main"
    /\ out = [k \in 2..3 |-> NoStream]
    /\ stream = NoReadStream
    /\ seen = {}
    /\ remainder = Null
    /\ promise = [k \in 2..3 |-> "none"]
    /\ records = <<>>
    /\ straddled = FALSE
    /\ crossDup = FALSE
    /\ trace = <<>>
    /\ appended = 0
    /\ err = "none"
    /\ logged = "none"

\* the pipeline, under every configuration
Init ==
    /\ config \in Flags
    /\ ips \in Logs(InitPool, MaxInitRecords)
    /\ includeFile = OldList
    /\ Fresh

Next ==
    \/ MainStart
    \/ \E n \in 1..3 : ScanDone(n)
    \/ \E n \in 1..3 : ScanFail(n)
    \/ \E n \in 1..3 : ValidatorAppend(n)
    \/ \E n \in 1..3 : ValidateDone(n)
    \/ \E n \in 1..3 : ValidateFail(n)
    \/ \E k \in 2..3 : Data(k)
    \/ \E k \in 2..3 : End(k)
    \/ \E k \in 2..3 : ReadError(k)
    \/ \E k \in 2..3 : OutOpen(k)
    \/ \E k \in 2..3 : OutWrite(k)
    \/ \E k \in 2..3 : OutFinish(k)
    \/ \E k \in 2..3 : OutError(k)
    \/ \E i \in 1..Len(GitSteps) : GitStepDone(i)
    \/ \E i \in 1..Len(GitSteps) : GitStepFail(i)

Spec == Init /\ [][Next]_vars

\* one builder alone, on every log and every chunking of it, without I/O
\* errors: only Stage 2 or only Stage 3 is enabled
BuildFlags ==
    { f \in Flags : ~f.scanPort /\ ~f.gitPush /\ (f.scan24s # f.scanAllPorts) }

InitBuild ==
    /\ config \in BuildFlags
    /\ ips \in Logs(RecordPool, MaxLogRecords)
    /\ includeFile = OldList
    /\ Fresh

\* statSync and both streams succeed
NextBuild ==
    \/ MainStart /\ pc' # Throw
    \/ \E k \in 2..3 : Data(k)
    \/ \E k \in 2..3 : End(k)
    \/ \E k \in 2..3 : OutOpen(k)
    \/ \E k \in 2..3 : OutWrite(k)
    \/ \E k \in 2..3 : OutFinish(k)

SpecBuild == InitBuild /\ [][NextBuild]_vars

\* the pipeline when every scan, validator and build succeeds and every call
\* of pushToGit settles: no stage fails and no stream has an I/O error
NextLive ==
    \/ MainStart /\ pc' # Throw
    \/ \E n \in 1..3 : ScanDone(n)
    \/ \E n \in 1..3 : ValidatorAppend(n)
    \/ \E n \in 1..3 : ValidateDone(n) /\ pc' # Throw
    \/ \E k \in 2..3 : Data(k)
    \/ \E k \in 2..3 : End(k)
    \/ \E k \in 2..3 : OutOpen(k)
    \/ \E k \in 2..3 : OutWrite(k)
    \/ \E k \in 2..3 : OutFinish(k)
    \/ \E i \in 1..Len(GitSteps) : GitStepDone(i)
    \/ \E i \in 1..Len(GitSteps) : GitStepFail(i)

\* what main is awaiting settles: the scan and the validator return, the
\* read stream delivers its next chunk or ends, the git call settles
Settle ==
    \/ MainStart /\ pc' # Throw
    \/ \E n \in 1..3 : ScanDone(n)
    \/ \E n \in 1..3 : ValidateDone(n) /\ pc' # Throw
    \/ \E k \in 2..3 : Data(k)
    \/ \E k \in 2..3 : End(k)
    \/ \E i \in 1..Len(GitSteps) : GitStepDone(i)
    \/ \E i \in 1..Len(GitSteps) : GitStepFail(i)

SpecLive == Init /\ [][NextLive]_vars /\ WF_vars(Settle)

(***************************************************************************)
(* Reference definitions: what the claims compare the program with.        *)
(***************************************************************************)
Range(f) == { f[i] : i \in DOMAIN f }
Last(q) == q[Len(q)]
IsPrefix(p, q) == Len(p) <= Len(q) /\ SubSeq(q, 1, Len(p)) = p

\* the complete records of a log, read as one piece
RefRecords(log) == [i \in 1..(Len(log) \div 6) |-> SubSeq(log, 6 * (i - 1) + 1, 6 * i)]

\* the projection width of the builder of Stage k, and a record's key
KeyWidth(k) == IF k = 2 THEN 3 ELSE 4
RefKey(k, r) == SubSeq(r, 1, KeyWidth(k))

\* the target-list line of a key: 'a.b.c.0/24' or 'a.b.c.d'
RefLine(k, key) ==
    ToString(key[1]) \o "." \o ToString(key[2]) \o "." \o ToString(key[3]) \o
        (IF k = 2 THEN ".0/24\n" ELSE "." \o ToString(key[4]) \o "\n")

RECURSIVE FirstSeen(_, _)
\* the distinct elements of q in the order of their first appearance
FirstSeen(q, acc) ==
    IF q = <<>> THEN acc
    ELSE FirstSeen(Tail(q), IF Head(q) \in Range(acc) THEN acc ELSE Append(acc, Head(q)))

RefKeys(k, log) == FirstSeen([i \in 1..(Len(log) \div 6) |-> RefKey(k, RefRecords(log)[i])], <<>>)
RefList(k, log) == [i \in 1..Len(RefKeys(k, log)) |-> RefLine(k, RefKeys(k, log)[i])]

\* the read stream of the builder of Stage k has ended and the builder's
\* promise is resolved
BuildEnded(k) == pc = ScanPc(k) /\ stream.state = "ended" /\ promise[k] = "resolved"

(***************************************************************************)
(* Claims on the builders, checked under SpecBuild.                        *)
(***************************************************************************)
\* C1 (framing): when a builder has read a log of exactly N*6 bytes, in
\* whatever chunks, its data handler has processed exactly the N records
\* bytes [6i, 6i+6) of the log, in order.
C1_Framing ==
    \A k \in 2..3 : (BuildEnded(k) /\ Len(ips) % 6 = 0) => records = RefRecords(ips)

\* a log of three records was read in chunks that split a record
C1_Witness ==
    \E k \in 2..3 : BuildEnded(k) /\ Len(ips) = 18 /\ straddled /\ Len(records) = 3

\* C2 (dedup): at every moment of a build the lines written so far are the
\* lines of pairwise different projected keys of the log, no key has two
\* lines, and there are at most as many lines as complete records.
C2_Dedup ==
    \A k \in 2..3 :
        LET L == out[k].lines
            keys == Range(RefKeys(k, ips))
        IN  /\ \A i \in 1..Len(L) : \E key \in keys : L[i] = RefLine(k, key)
            /\ \A key \in keys : Cardinality({ i \in 1..Len(L) : L[i] = RefLine(k, key) }) <= 1
            /\ Len(L) <= Len(ips) \div 6

\* a key first seen in one chunk came again in a later chunk, and got no line
C2_Witness ==
    \E k \in 2..3 : BuildEnded(k) /\ crossDup /\ Len(out[k].lines) < Len(records)

\* C3 (order and completeness): the lines a finished build has written are
\* the lines of the distinct projected keys of the log's complete records,
\* in the order of each key's first appearance.
C3_Order ==
    \A k \in 2..3 : BuildEnded(k) => out[k].lines = RefList(k, ips)

\* three records, two keys, read in chunks that split a record
C3_Witness ==
    \E k \in 2..3 : BuildEnded(k) /\ Len(records) = 3 /\ Len(out[k].lines) = 2 /\ straddled

\* the builder of Stage k was called: in SpecBuild it is the only one
Built(k) == promise[k] # "none"

\* the lines the builder of Stage k writes when the read stream delivers the
\* whole log as one chunk
OneChunk(k, log) ==
    Loop(k, Concat(k, Null, log), [seen |-> {}, written |-> <<>>, recs |-> <<>>]).written

\* C11 (idempotence): whatever the chunks of its read, a build gives
\* out.write the lines that the build reading the log as one chunk gives,
\* and once its write stream has finished includeFile.txt holds exactly
\* these lines; so two builds of the same log, each read split in its own
\* way, yield the same content.
C11_Idempotent ==
    \A k \in 2..3 :
        /\ BuildEnded(k) => out[k].lines = OneChunk(k, ips)
        /\ out[k].state = "finished" => includeFile = OneChunk(k, ips)

\* a build whose read split a record has replaced the former content of
\* includeFile.txt by two lines or more
C11_Witness ==
    \E k \in 2..3 :
        /\ out[k].state = "finished"
        /\ straddled
        /\ Len(includeFile) >= 2
        /\ includeFile = out[k].lines

\* the addresses of the complete records of a log
Addresses(log) == [i \in 1..(Len(log) \div 6) |-> SubSeq(RefRecords(log)[i], 1, 4)]

Scenario == << <<10, 0, 0, 1>>, <<10, 0, 0, 2>>, <<10, 1, 0, 1>> >>

\* C12 (projection): every record (a,b,c,d,p1,p2) the handler has iterated
\* over has the line 'a.b.c.0/24' (subnet mode) or 'a.b.c.d' (host mode) in
\* the list, once, whatever its port bytes; every line is the line of such a
\* record; and the log with the addresses 10.0.0.1, 10.0.0.2, 10.1.0.1
\* gives [10.0.0.0/24, 10.1.0.0/24] and [10.0.0.1, 10.0.0.2, 10.1.0.1].
C12_Projection ==
    \A k \in 2..3 : Built(k) =>
        LET L == out[k].lines
            LineOf(r) ==
                ToString(r[1]) \o "." \o ToString(r[2]) \o "." \o ToString(r[3]) \o
                    (IF k = 2 THEN ".0/24\n" ELSE "." \o ToString(r[4]) \o "\n")
        IN  /\ \A j \in 1..Len(records) :
                Cardinality({ i \in 1..Len(L) : L[i] = LineOf(records[j]) }) = 1
            /\ \A i \in 1..Len(L) : \E j \in 1..Len(records) : L[i] = LineOf(records[j])
            /\ (BuildEnded(k) /\ Addresses(ips) = Scenario) =>
                   L = IF k = 2 THEN <<"10.0.0.0/24\n", "10.1.0.0/24\n">>
                       ELSE <<"10.0.0.1\n", "10.0.0.2\n", "10.1.0.1\n">>

\* host mode on a log holding the same host on two ports: one line for both
C12_Witness ==
    /\ BuildEnded(3)
    /\ RefRecords(ips) = << <<10, 0, 0, 1, 99, 221>>, <<10, 1, 0, 1, 99, 221>>,
                            <<10, 0, 0, 1, 99, 222>> >>
    /\ out[3].lines = <<"10.0.0.1\n", "10.1.0.1\n">>

\* C13 (partial tail): the records a build processes are always the first
\* complete records of the log, so the trailing (length mod 6) bytes are
\* never part of one; when the read of a log with such a tail has ended,
\* the floor(length/6) complete records were processed, the tail is still
\* the unused remainder, the promise is resolved without an error and the
\* list is the list of the complete records.
C13_PartialTail ==
    \A k \in 2..3 : Built(k) =>
        /\ IsPrefix(records, RefRecords(ips))
        /\ (stream.state = "ended" /\ Len(ips) % 6 # 0) =>
               /\ Len(records) = Len(ips) \div 6
               /\ remainder = Buf(SubSeq(ips, Len(ips) - (Len(ips) % 6) + 1, Len(ips)))
               /\ promise[k] = "resolved"
               /\ pc = ScanPc(k)
               /\ err = "none"
               /\ out[k].lines = RefList(k, ips)

\* a log of two records and five more bytes was read in several chunks
C13_Witness ==
    \E k \in 2..3 :
        /\ BuildEnded(k)
        /\ Len(ips) = 17
        /\ straddled
        /\ Len(records) = 2
        /\ Len(Get(remainder)) = 5

\* C15 (remainder invariant): after each chunk, with T the number of bytes
\* delivered so far, the remainder is the last (T mod 6) bytes delivered,
\* null when T mod 6 = 0, and floor(T/6) records have been processed.
C15_RemainderInvariant ==
    \A k \in 2..3 : Built(k) =>
        LET T == stream.pos
        IN  /\ remainder = IF T % 6 = 0 THEN Null
                           ELSE Buf(SubSeq(ips, T - (T % 6) + 1, T))
            /\ remainder # Null => Len(Get(remainder)) \in 1..5
            /\ Len(records) = T \div 6

\* in the middle of a read: a remainder was prepended, a record was
\* completed and bytes of the next one are carried again
C15_Witness ==
    \E k \in 2..3 :
        /\ pc = BuildPc(k)
        /\ straddled
        /\ stream.pos % 6 # 0
        /\ Len(records) >= 1
        /\ stream.pos < Len(ips)

RECURSIVE LastDot(_, _)
\* the position of the last '.' among the first i characters of a line
LastDot(line, i) ==
    IF i = 0 THEN 0 ELSE IF SubSeq(line, i, i) = "." THEN i ELSE LastDot(line, i - 1)

\* 'a.b.c.d' rewritten as 'a.b.c.0/24'
ToSubnetLine(line) == SubSeq(line, 1, LastDot(line, Len(line))) \o "0/24\n"

\* a host list with each line rewritten and first occurrences kept
CollapseHosts(lines) == FirstSeen([i \in 1..Len(lines) |-> ToSubnetLine(lines[i])], <<>>)

\* C19 (the two builders agree): the subnet list a build of buildInclude24s
\* has written is the collapsed host list of buildIncludeIps on the same
\* log, and the collapsed host list a build of buildIncludeIps has written
\* is the subnet list of buildInclude24s on the same log.
C19_BuildersAgree ==
    /\ BuildEnded(2) => out[2].lines = CollapseHosts(OneChunk(3, ips))
    /\ BuildEnded(3) => CollapseHosts(out[3].lines) = OneChunk(2, ips)

\* three hosts of two subnets, read by buildIncludeIps in several chunks
C19_Witness ==
    /\ BuildEnded(3)
    /\ straddled
    /\ Len(out[3].lines) = 3
    /\ Len(CollapseHosts(out[3].lines)) = 2

(***************************************************************************)
(* Claims on the pipeline, checked under Spec.                             *)
(***************************************************************************)
Scans == {"scan1", "scan2", "scan3"}
Validators == {"validate1", "validate2", "validate3"}

\* C4 (a scan starts only after its list is built): while the scan of
\* Stage 2 or 3 runs, no line of the stage's list is still pending in the
\* builder's write stream.
C4_ScanAfterBuild ==
    \A k \in 2..3 : pc = ScanPc(k) => out[k].flushed = Len(out[k].lines)

\* C5 (fail-fast): once a scan, a validator or a build has failed, main has
\* ended without reaching Done, no pipeline action starts any more, and a
\* validator failure in Stage 1 leaves the subnet build unstarted.
Failures == {"scan", "validator", "read", "stat", "write"}

C5_FailFast ==
    /\ [](err \in Failures =>
            /\ pc \in {"failed", "crashed"}
            /\ (Last(trace) = "validate1" => "build24" \notin Range(trace)))
    /\ [][(pc \in {"failed", "crashed"}) => (pc' = pc /\ trace' = trace)]_vars

\* the validator of Stage 1 failed with Stage 2 enabled
C5_Witness ==
    /\ pc = "failed"
    /\ err = "validator"
    /\ trace = <<"scan1", "validate1">>
    /\ config.scan24s

StageActions(n) ==
    CASE n = 1 -> <<"scan1", "validate1">>
      [] n = 2 -> <<"build24", "scan2", "validate2">>
      [] n = 3 -> <<"buildIps", "scan3", "validate3">>
      [] OTHER -> <<"publish">>

Flag(n) ==
    CASE n = 1 -> config.scanPort
      [] n = 2 -> config.scan24s
      [] n = 3 -> config.scanAllPorts
      [] OTHER -> config.gitPush

RECURSIVE ExpectedTrace(_)
ExpectedTrace(n) ==
    IF n > 4 THEN <<>>
    ELSE (IF Flag(n) THEN StageActions(n) ELSE <<>>) \o ExpectedTrace(n + 1)

C7_StageSkip ==
    /\ \A n \in 1..4 : ~Flag(n) => Range(StageActions(n)) \cap Range(trace) = {}
    /\ \A k \in 2..3 : ~Flag(k) => (out[k].state = "none" /\ promise[k] = "none")
    /\ ~Flag(4) => pc \notin Range(GitSteps)
    /\ pc = "done" => trace = ExpectedTrace(1)

\* a run with Stage 2 disabled between two enabled stages has reached Done
C7_Witness ==
    /\ pc = "done"
    /\ config.scanPort /\ ~config.scan24s /\ config.scanAllPorts
    /\ trace = <<"scan1", "validate1", "buildIps", "scan3", "validate3">>

\* C8 (build I/O errors reject): after an I/O error on the read stream or on
\* the write stream of a build, the builder's promise is rejected and the
\* stage's scan has not been invoked.
BuildIoError(k) ==
    \/ out[k].state = "errored"
    \/ err \in {"read", "stat"} /\ Last(trace) = BuildPc(k)

C8_BuildErrorRejects ==
    \A k \in 2..3 :
        BuildIoError(k) => (promise[k] = "rejected" /\ ScanPc(k) \notin Range(trace))

\* C9 (publish failure is recovered): when a call of pushToGit has failed,
\* the error was logged, main has not failed and the run is Done.
C9_PublishRecovered ==
    /\ err = "git" => (pc = "done" /\ logged # "none")
    /\ pc \in {"failed", "crashed"} => err \in Failures

\* after a full first stage, git.push has failed
C9_Witness ==
    /\ pc = "done"
    /\ logged = "git_push"
    /\ trace = <<"scan1", "validate1", "publish">>

\* C10 (mutual exclusion): at most one pipeline action is in progress; a
\* build is in progress from its start until its promise is settled and
\* its write stream has finished.
InProgress ==
    (IF pc \in Scans \cup Validators THEN {pc}
     ELSE IF pc \in Range(GitSteps) THEN {"publish"} ELSE {})
    \cup { BuildPc(k) : k \in { j \in 2..3 : promise[j] = "pending"
                                             \/ out[j].state \in {"opening", "open"} } }

C10_MutualExclusion == Cardinality(InProgress) <= 1

Order ==
    <<"scan1", "validate1", "build24", "scan2", "validate2",
      "buildIps", "scan3", "validate3", "publish">>

Pos(a) == CHOOSE p \in 1..Len(Order) : Order[p] = a

ScanOf(v) ==
    CASE v = "validate1" -> "scan1" [] v = "validate2" -> "scan2" [] OTHER -> "scan3"

C16_Order ==
    /\ \A i \in 1..Len(trace) : trace[i] \in Range(Order)
    /\ \A i, j \in 1..Len(trace) : i < j => Pos(trace[i]) < Pos(trace[j])
    /\ \A i \in 1..Len(trace) :
           trace[i] \in Validators => (i > 1 /\ trace[i - 1] = ScanOf(trace[i]))
    /\ pc \in Scans => Last(trace) = pc
    /\ err = "scan" => Last(trace) \in Scans

\* all nine actions were made, in order, and the run is Done
C16_Witness == pc = "done" /\ trace = Order

\* C17 (cumulative scoping): when the build of Stage 3 has ended, its list
\* is the list of the distinct addresses of the complete records of the log
\* as it is then, and it holds the address of every record the validators
\* of Stages 1 and 2 have appended in this run.
AppendedRecords ==
    { SubSeq(ips, Len(ips) - 6 * i + 1, Len(ips) - 6 * i + 6) : i \in 1..appended }

C17_Cumulative ==
    BuildEnded(3) =>
        /\ out[3].lines = RefList(3, ips)
        /\ \A r \in AppendedRecords : RefLine(3, RefKey(3, r)) \in Range(out[3].lines)

\* C18 (port coverage): when the scan of Stage 3 runs, the ports of the
\* three stages' commands are pairwise disjoint and together they are all
\* the ports from 1 to 65535.
PortRange == <<1, 65535>>

AllPorts == Ports(1) \cup Ports(2) \cup Ports(3)

C18_PortCoverage ==
    pc = "scan3" =>
        /\ \A a, b \in AllPorts : a # b => (a[2] < b[1] \/ b[2] < a[1])
        /\ \A a \in AllPorts : PortRange[1] <= a[1] /\ a[1] <= a[2] /\ a[2] <= PortRange[2]
        /\ \E a \in AllPorts : a[1] = PortRange[1]
        /\ \A a \in AllPorts : a[2] = PortRange[2] \/ \E b \in AllPorts : b[1] = a[2] + 1

\* C20 (termination): under each of the 16 configurations, when no scan,
\* validator or build fails and every call of pushToGit settles, the run
\* reaches Done, having made exactly the actions of the enabled stages in
\* the order Stage 1, Stage 2, Stage 3, publish.
C20_Termination == <>(pc = "done" /\ trace = ExpectedTrace(1))

\* all four flags set: Done after all the stages and a push that succeeded
C20_Witness ==
    /\ pc = "done"
    /\ config = [scanPort |-> TRUE, scan24s |-> TRUE, scanAllPorts |-> TRUE, gitPush |-> TRUE]
    /\ trace = ExpectedTrace(1)
    /\ Len(trace) = 9
    /\ err = "none"

====
